---- MODULE Spec2Model ----
(***************************************************************************)
(* A model of the meeting assistant's two core pieces:                     *)
(*   - PydanticAgent.run_conversation (src/src/agent.py), the tool         *)
(*     dispatcher: one tools-offered model submission, one round of tool   *)
(*     calls, one final submission without tools;                          *)
(*   - find_available_slots (src/src/gcal.py), the free/busy resolver.     *)
(* The dispatcher is checked under SpecDispatcher, the resolver under      *)
(* SpecResolver.  Each specification leaves the other component's          *)
(* variables at their idle values.                                         *)
(***************************************************************************)
EXTENDS Integers, Sequences, FiniteSets, TLC

VARIABLES
    \* ---- run_conversation ----
    pc,                \* position inside run_conversation
    messages,          \* the conversation list, mutated in place
    response_message,  \* response.choices[0].message of the first submission
    tool_calls,        \* response_message.tool_calls
    idx,               \* 1-based position of the for loop over tool_calls
    submissions,       \* every chat.completions.create call made, in order
    handler_runs,      \* the handler executions: which tool call, and how it ended
    result,            \* the value run_conversation returned
    exception,         \* what run_conversation raised, "none" if nothing
    \* ---- find_available_slots ----
    rpc,               \* position inside find_available_slots
    args,              \* FindAvailableSlotsArgs, with the dates already as instants
    freebusy_result,   \* freebusy_result['calendars'], in dict order
    all_busy_intervals,
    merged_busy,
    output             \* the FindAvailableSlotsOutput returned

dvars == <<pc, messages, response_message, tool_calls, idx, submissions,
           handler_runs, result, exception>>
rvars == <<rpc, args, freebusy_result, all_busy_intervals, merged_busy, output>>
vars == <<dvars, rvars>>

None == "None"

(***************************************************************************)
(* Bounds of the model.                                                    *)
(***************************************************************************)
MaxCalls == 2        \* invocation requests in one round
MaxAttendees == 2    \* attendees of one find_available_slots call
MaxIntervals == 2    \* busy intervals in one free/busy answer

(***************************************************************************)
(*                    PydanticAgent.run_conversation                       *)
(***************************************************************************)

\* self.tools: the registered catalog, operation name -> handler kind.
tools ==
    [n \in {"parse_email", "retrieve_calendar_events", "find_available_slots"} |->
        [function |-> n, args_model |-> n]]

\* Operation names the model may put into an invocation request: the
\* registered ones and one that is not registered.
OperationNames == (DOMAIN tools) \cup {"send_invite"}

\* What tool_call.function.arguments can be for args_model.model_validate_json:
\* valid, not JSON at all, or JSON that fails the schema.
Payloads == {"valid", "malformed_json", "schema_invalid"}

CallIds == {"call_a", "call_b"}

ToolCall == [id : CallIds, name : OperationNames, arguments : Payloads]

SeqUpTo(S, n) == UNION {[1..k -> S] : k \in 0..n}

\* conversation_history as the request handler builds it.
InitialConversation ==
    <<[role |-> "system", content |-> "system_prompt"],
      [role |-> "user", content |-> "prompt"]>>

\* The messages the model can answer with.  An answer without tool calls
\* has tool_calls empty (None and [] are both falsy for `if tool_calls:`).
Responses(content, rounds) ==
    {[role |-> "assistant", content |-> content, tool_calls |-> tcs] : tcs \in rounds}

\* The answers to the first submission: up to MaxCalls invocation requests.
FirstResponses == Responses("first", SeqUpTo(ToolCall, MaxCalls))

\* The answers to the second submission.  No tools were offered, but nothing
\* stops the model from asking for one again.
SecondResponses ==
    Responses("second",
              {<<>>, <<[id |-> "call_a", name |-> "find_available_slots",
                        arguments |-> "valid"]>>})

\* args_model.model_validate_json(tool_call.function.arguments) succeeds.
ValidatesJson(tc) == tc.arguments = "valid"

\* The tool message appended after a successful handler call.
ToolResultMessage(tc) ==
    [tool_call_id |-> tc.id, role |-> "tool", name |-> tc.name,
     content |-> <<"model_dump_json", tc.name>>]

\* Mutant: the except branch tags the message with the operation name
\* instead of the invocation's identifier.
ToolErrorMessageTaggedByName(tc, e) ==
    [tool_call_id |-> tc.name, role |-> "tool", name |-> tc.name,
     content |-> <<"error", "Failed to execute tool", e>>]

\* The tool message appended by the except branch.
ToolErrorMessage(tc, e) ==
    [tool_call_id |-> tc.id, role |-> "tool", name |-> tc.name,
     content |-> <<"error", "Failed to execute tool", e>>]

\* One chat.completions.create call, as recorded in submissions.
Submission(offered, msgs) == [tools |-> offered, messages |-> msgs]

DispatcherIdle ==
    /\ pc = "start"
    /\ messages = InitialConversation
    /\ response_message = None
    /\ tool_calls = <<>>
    /\ idx = 0
    /\ submissions = <<>>
    /\ handler_runs = <<>>
    /\ result = None
    /\ exception = "none"

\* The first submission (tools offered) raises: nothing catches it.
FirstSubmissionFails ==
    /\ pc = "start"
    /\ submissions' = Append(submissions, Submission(TRUE, messages))
    /\ pc' = "raised"
    /\ exception' = "first_submission"
    /\ UNCHANGED <<messages, response_message, tool_calls, idx, handler_runs, result>>

\* Mutant: the assistant message is appended and the round entered before
\* tool_calls is tested, so an answer without tool calls is resubmitted.
FirstSubmissionAlwaysRound ==
    /\ pc = "start"
    /\ \E resp \in FirstResponses :
        /\ submissions' = Append(submissions, Submission(TRUE, messages))
        /\ response_message' = resp
        /\ tool_calls' = resp.tool_calls
        /\ messages' = Append(messages, resp)
        /\ idx' = 1
        /\ pc' = IF Len(resp.tool_calls) > 0 THEN "dispatch" ELSE "second"
    /\ UNCHANGED <<handler_runs, result, exception>>

\* The first submission answers; `if tool_calls:` then either appends the
\* assistant message and enters the loop, or returns the message.
FirstSubmission ==
    /\ pc = "start"
    /\ \E resp \in FirstResponses :
        /\ submissions' = Append(submissions, Submission(TRUE, messages))
        /\ response_message' = resp
        /\ tool_calls' = resp.tool_calls
        /\ IF Len(resp.tool_calls) > 0
           THEN /\ messages' = Append(messages, resp)
                /\ idx' = 1
                /\ pc' = "dispatch"
                /\ result' = result
           ELSE /\ messages' = messages
                /\ idx' = idx
                /\ pc' = "returned"
                /\ result' = resp
    /\ UNCHANGED <<handler_runs, exception>>

\* Where the loop goes after the tool call at position idx.
AfterCall == IF idx = Len(tool_calls) THEN "second" ELSE "dispatch"

\* self.tools[function_name]["args_model"], before the try: an unregistered
\* name raises KeyError out of run_conversation.
LookupFails ==
    /\ pc = "dispatch"
    /\ tool_calls[idx].name \notin DOMAIN tools
    /\ pc' = "raised"
    /\ exception' = "KeyError"
    /\ UNCHANGED <<messages, response_message, tool_calls, idx, submissions,
                   handler_runs, result>>

\* Mutant: model_validate_json is called before the try, so a bad payload
\* raises out of run_conversation.
ValidationFailsOutsideTry ==
    /\ pc = "dispatch"
    /\ tool_calls[idx].name \in DOMAIN tools
    /\ ~ValidatesJson(tool_calls[idx])
    /\ pc' = "raised"
    /\ exception' = "ValidationError"
    /\ UNCHANGED <<messages, response_message, tool_calls, idx, submissions,
                   handler_runs, result>>

\* The try block fails in model_validate_json: the handler is not called.
ValidationFails ==
    /\ pc = "dispatch"
    /\ tool_calls[idx].name \in DOMAIN tools
    /\ ~ValidatesJson(tool_calls[idx])
    /\ messages' = Append(messages, ToolErrorMessage(tool_calls[idx], "ValidationError"))
    /\ idx' = idx + 1
    /\ pc' = AfterCall
    /\ UNCHANGED <<response_message, tool_calls, submissions, handler_runs,
                   result, exception>>

\* The handler is called and raises (or model_dump_json does).  The calendar
\* handlers catch their own exceptions; the dispatcher does not rely on it.
HandlerRaises ==
    /\ pc = "dispatch"
    /\ tool_calls[idx].name \in DOMAIN tools
    /\ ValidatesJson(tool_calls[idx])
    /\ handler_runs' = Append(handler_runs, [call |-> idx, outcome |-> "raised"])
    /\ messages' = Append(messages, ToolErrorMessage(tool_calls[idx], "HandlerError"))
    /\ idx' = idx + 1
    /\ pc' = AfterCall
    /\ UNCHANGED <<response_message, tool_calls, submissions, result, exception>>

\* The handler is called and its output is serialized into a tool message.
HandlerReturns ==
    /\ pc = "dispatch"
    /\ tool_calls[idx].name \in DOMAIN tools
    /\ ValidatesJson(tool_calls[idx])
    /\ handler_runs' = Append(handler_runs, [call |-> idx, outcome |-> "returned"])
    /\ messages' = Append(messages, ToolResultMessage(tool_calls[idx]))
    /\ idx' = idx + 1
    /\ pc' = AfterCall
    /\ UNCHANGED <<response_message, tool_calls, submissions, result, exception>>

\* The second submission (no tools) answers: its message is returned as is.
SecondSubmission ==
    /\ pc = "second"
    /\ submissions' = Append(submissions, Submission(FALSE, messages))
    /\ \E resp \in SecondResponses :
        /\ result' = resp
        /\ pc' = "returned"
    /\ UNCHANGED <<messages, response_message, tool_calls, idx, handler_runs, exception>>

\* The second submission raises.
SecondSubmissionFails ==
    /\ pc = "second"
    /\ submissions' = Append(submissions, Submission(FALSE, messages))
    /\ pc' = "raised"
    /\ exception' = "second_submission"
    /\ UNCHANGED <<messages, response_message, tool_calls, idx, handler_runs, result>>

(***************************************************************************)
(*                     Properties of run_conversation                      *)
(***************************************************************************)

\* messages[Base + i] is where the tool message of the i-th tool call goes:
\* after the initial conversation and the assistant message.
Base == Len(InitialConversation) + 1

IsToolMessageFor(m, tc) == m.role = "tool" /\ m.tool_call_id = tc.id

IsErrorMessage(m) == m.role = "tool" /\ m.content[1] = "error"

\* The loop has got to the tool call at position i.
Reached(i) == i < idx \/ (i = idx /\ pc = "raised")

Terminated == pc \in {"returned", "raised"}

\* C1: a tool call naming an unregistered operation gets an error tool
\* message of its own and does not abort the round: run_conversation does
\* not raise on it, and once the call terminates every tool call of the
\* round has its tool message and the second submission was made.
C1_UnknownOperationDoesNotAbort ==
    \A i \in 1..Len(tool_calls) :
        (tool_calls[i].name \notin DOMAIN tools /\ Reached(i)) =>
            /\ exception # "KeyError"
            /\ Len(messages) >= Base + i
            /\ IsToolMessageFor(messages[Base + i], tool_calls[i])
            /\ IsErrorMessage(messages[Base + i])
            /\ Terminated =>
                /\ Len(messages) = Base + Len(tool_calls)
                /\ Len(submissions) = 2

\* C2: every submission made without tools (the second one) carries the
\* initial conversation, the assistant message, and then exactly one tool
\* message per tool call of the round, the i-th one tagged with the
\* identifier of the i-th tool call.
C2_ToolResultsAnswerCallsInOrder ==
    \A k \in 1..Len(submissions) :
        ~submissions[k].tools =>
            LET m == submissions[k].messages IN
            /\ Len(m) = Base + Len(tool_calls)
            /\ SubSeq(m, 1, Base) = Append(InitialConversation, response_message)
            /\ \A i \in 1..Len(tool_calls) : IsToolMessageFor(m[Base + i], tool_calls[i])

\* A second submission was made for a round of two calls with different
\* identifiers, the first failing validation and the second succeeding.
C2_Witness ==
    /\ Len(submissions) = 2
    /\ Len(tool_calls) = 2
    /\ tool_calls[1].id # tool_calls[2].id
    /\ handler_runs = <<[call |-> 2, outcome |-> "returned"]>>
    /\ IsErrorMessage(submissions[2].messages[Base + 1])

\* C3: when the first answer carries tool calls, a terminated
\* run_conversation has made exactly two submissions, the second one
\* without tools and after the tool messages of all calls of the round, and
\* what it returns is the answer to that second submission.
C3_ExactlyOneMoreSubmission ==
    (Terminated /\ Len(tool_calls) > 0) =>
        /\ Len(submissions) = 2
        /\ submissions[1].tools /\ ~submissions[2].tools
        /\ Len(submissions[2].messages) = Base + Len(tool_calls)
        /\ Len(handler_runs) <= Len(tool_calls)
        /\ pc = "returned" => result \in SecondResponses

\* C4: when the first answer carries no tool calls, run_conversation returns
\* that answer, having made one submission, run no handler and appended
\* nothing to the conversation.
C4_NoCallsReturnsFirstAnswer ==
    (pc \notin {"start"} /\ exception # "first_submission" /\ Len(tool_calls) = 0) =>
        /\ pc = "returned"
        /\ result = response_message
        /\ Len(submissions) = 1 /\ submissions[1].tools
        /\ handler_runs = <<>>
        /\ messages = InitialConversation

C4_Witness ==
    /\ pc = "returned"
    /\ Len(tool_calls) = 0
    /\ result = response_message

C6_OnlySecondSubmissionAborts ==
    pc = "raised" => exception = "second_submission"

ResolverIdle ==
    /\ rpc = "idle"
    /\ args = None
    /\ freebusy_result = <<>>
    /\ all_busy_intervals = <<>>
    /\ merged_busy = <<>>
    /\ output = None

InitDispatcher == DispatcherIdle /\ ResolverIdle

NextDispatcher ==
    /\ \/ FirstSubmissionFails
       \/ FirstSubmission
       \/ LookupFails
       \/ ValidationFails
       \/ HandlerRaises
       \/ HandlerReturns
       \/ SecondSubmission
       \/ SecondSubmissionFails
    /\ UNCHANGED rvars

SpecDispatcher == InitDispatcher /\ [][NextDispatcher]_vars

(***************************************************************************)
(*                          find_available_slots                           *)
(* Instants are seconds on the UTC timeline, counted from 00:00:00 of the  *)
(* first date the model uses.                                              *)
(***************************************************************************)

\* datetime.isoformat(): an instant as its date and time-of-day fields.
isoformat(t) == <<t \div 86400, (t % 86400) \div 3600, (t % 3600) \div 60, t % 60>>

\* datetime.fromisoformat(): the instant a date/time string denotes.
fromisoformat(str) == str[1] * 86400 + str[2] * 3600 + str[3] * 60 + str[4]

\* datetime.timedelta(minutes=m), in seconds.
timedelta_minutes(m) == m * 60

\* The date strings the model may pass; one of them is not a date.
DateStrings == {"2025-07-02", "next thursday"}

IsIsoDate(d) == d = "2025-07-02"

\* The instant of 00:00:00 of a valid date string.
Midnight(d) == 0

\* start_time_dt and end_time_dt: the search window of the arguments.
start_time_dt(a) == Midnight(a.start_date)
end_time_dt(a) == Midnight(a.end_date) + 23 * 3600 + 59 * 60 + 59

\* USER_MAP's addresses, in order.
UserEmails == <<"userone.amd@gmail.com", "usertwo.amd@gmail.com", "userthree.amd@gmail.com">>

\* duration_minutes: values around the gap lengths the instants below give.
Durations == {30, 480, 481, 1440}

FindAvailableSlotsArgs ==
    [start_date : DateStrings, end_date : {"2025-07-02"},
     duration_minutes : Durations,
     attendee_emails : {SubSeq(UserEmails, 1, n) : n \in 0..MaxAttendees}]

\* The instants a busy interval may start or end at, as hours from the
\* window's start: one before the window, the window's start, two inside
\* the window, two after the window's end.
Instants == {h * 3600 : h \in {-8, 0, 8, 16, 32, 40}}

\* A busy interval as the free/busy answer carries it.
BusyIntervals ==
    {[start |-> isoformat(s), end |-> isoformat(e)] : <<s, e>> \in {x \in Instants \X Instants : x[1] < x[2]}}

\* One calendar of the answer: its errors, if any, and its busy list.
Calendars(budget) == [errors : BOOLEAN, busy : SeqUpTo(BusyIntervals, budget)]

Max(a, b) == IF a >= b THEN a ELSE b

\* Mutant: the errors of a calendar are not looked at.
RECURSIVE FlattenIgnoringErrors(_)
FlattenIgnoringErrors(calendars) ==
    IF calendars = <<>> THEN <<>>
    ELSE LET data == Head(calendars)
             own == [i \in 1..Len(data.busy) |->
                        <<fromisoformat(data.busy[i].start), fromisoformat(data.busy[i].end)>>]
         IN  own \o FlattenIgnoringErrors(Tail(calendars))

\* The loop over freebusy_result['calendars']: calendars with errors are
\* skipped, the others' intervals are appended as (start, end) instants.
RECURSIVE Flatten(_)
Flatten(calendars) ==
    IF calendars = <<>> THEN <<>>
    ELSE LET data == Head(calendars)
             own == [i \in 1..Len(data.busy) |->
                        <<fromisoformat(data.busy[i].start), fromisoformat(data.busy[i].end)>>]
         IN  (IF data.errors THEN <<>> ELSE own) \o Flatten(Tail(calendars))

\* list.sort(key=lambda x: x[0]): stable, by start only.
RECURSIVE InsertByStart(_, _)
InsertByStart(sorted, x) ==
    IF sorted = <<>> THEN <<x>>
    ELSE IF x[1] < Head(sorted)[1] THEN <<x>> \o sorted
    ELSE <<Head(sorted)>> \o InsertByStart(Tail(sorted), x)

RECURSIVE SortByStart(_)
SortByStart(intervals) ==
    IF intervals = <<>> THEN <<>>
    ELSE InsertByStart(SortByStart(SubSeq(intervals, 1, Len(intervals) - 1)),
                       intervals[Len(intervals)])

\* Mutant: a merged interval takes the end of the interval merged last
\* (current_end = next_end).
RECURSIVE MergeRunLastEnd(_, _, _)
MergeRunLastEnd(current, rest, merged) ==
    IF rest = <<>> THEN Append(merged, current)
    ELSE LET next == Head(rest) IN
         IF next[1] < current[2]
         THEN MergeRunLastEnd(<<current[1], next[2]>>, Tail(rest), merged)
         ELSE MergeRunLastEnd(next, Tail(rest), Append(merged, current))

\* The merge loop, with (current_start, current_end) as current.
RECURSIVE MergeRun(_, _, _)
MergeRun(current, rest, merged) ==
    IF rest = <<>> THEN Append(merged, current)
    ELSE LET next == Head(rest) IN
         IF next[1] < current[2]
         THEN MergeRun(<<current[1], Max(current[2], next[2])>>, Tail(rest), merged)
         ELSE MergeRun(next, Tail(rest), Append(merged, current))

MergeBusy(sorted) ==
    IF sorted = <<>> THEN <<>> ELSE MergeRun(Head(sorted), Tail(sorted), <<>>)

TimeSlot(start, end) == [start_time |-> isoformat(start), end_time |-> isoformat(end)]

\* The test both slot-emitting ifs make: a gap from last to next of at least
\* the requested duration.
Qualifies(last, next, duration_minutes) ==
    next > last /\ (next - last) >= timedelta_minutes(duration_minutes)

\* The loop over merged_busy; gives available_slots and last_busy_end.
RECURSIVE WalkBusy(_, _, _, _)
WalkBusy(merged, last_busy_end, available_slots, duration_minutes) ==
    IF merged = <<>> THEN [slots |-> available_slots, last |-> last_busy_end]
    ELSE LET busy == Head(merged) IN
         WalkBusy(Tail(merged),
                  Max(last_busy_end, busy[2]),
                  IF Qualifies(last_busy_end, busy[1], duration_minutes)
                  THEN Append(available_slots, TimeSlot(last_busy_end, busy[1]))
                  ELSE available_slots,
                  duration_minutes)

\* available_slots after the loop and the test of the window's tail.
AvailableSlots(merged, a) ==
    LET walked == WalkBusy(merged, start_time_dt(a), <<>>, a.duration_minutes) IN
    IF Qualifies(walked.last, end_time_dt(a), a.duration_minutes)
    THEN Append(walked.slots, TimeSlot(walked.last, end_time_dt(a)))
    ELSE walked.slots

\* FindAvailableSlotsOutput, with its defaults.
FindAvailableSlotsOutput(slots, status, error) ==
    [slots |-> slots, status |-> status, error |-> error]

\* The return statement of the try block.
SlotsOutput(available_slots) ==
    IF available_slots # <<>>
    THEN FindAvailableSlotsOutput(available_slots, None, None)
    ELSE FindAvailableSlotsOutput(<<>>, "No common slots found.", None)

ResolverCalled ==
    /\ rpc = "called"
    /\ args \in FindAvailableSlotsArgs
    /\ freebusy_result = <<>>
    /\ all_busy_intervals = <<>>
    /\ merged_busy = <<>>
    /\ output = FindAvailableSlotsOutput(<<>>, None, None)

\* fromisoformat of start_date or end_date raises: except Exception.
DateParseFails ==
    /\ rpc = "called"
    /\ ~(IsIsoDate(args.start_date) /\ IsIsoDate(args.end_date))
    /\ output' = FindAvailableSlotsOutput(<<>>, None, "An unexpected error occurred")
    /\ rpc' = "returned"
    /\ UNCHANGED <<args, freebusy_result, all_busy_intervals, merged_busy>>

\* freebusy().query().execute() raises HttpError.
FreeBusyQueryFails ==
    /\ rpc = "called"
    /\ IsIsoDate(args.start_date) /\ IsIsoDate(args.end_date)
    /\ output' = FindAvailableSlotsOutput(<<>>, None, "An API error occurred")
    /\ rpc' = "returned"
    /\ UNCHANGED <<args, freebusy_result, all_busy_intervals, merged_busy>>

\* The body of the try block once the query has answered: flatten, sort,
\* merge, walk, return.
ComputeSlots(answer) ==
    /\ freebusy_result' = answer
    /\ all_busy_intervals' = SortByStart(Flatten(answer))
    /\ merged_busy' = MergeBusy(all_busy_intervals')
    /\ output' = SlotsOutput(AvailableSlots(merged_busy', args))

\* The query answers with one calendar per attendee still to come, holding
\* at most budget busy intervals together; then the slots are computed.
RECURSIVE QueryAnswers(_, _, _)
QueryAnswers(k, budget, answer) ==
    IF k = 0 THEN ComputeSlots(answer)
    ELSE \E c \in Calendars(budget) :
            QueryAnswers(k - 1, budget - Len(c.busy), Append(answer, c))

\* The query answers, and the slots are computed from the answer.
FindSlots ==
    /\ rpc = "called"
    /\ IsIsoDate(args.start_date) /\ IsIsoDate(args.end_date)
    /\ QueryAnswers(Len(args.attendee_emails), MaxIntervals, <<>>)
    /\ rpc' = "returned"
    /\ UNCHANGED args

InitResolver == DispatcherIdle /\ ResolverCalled

NextResolver ==
    /\ \/ DateParseFails
       \/ FreeBusyQueryFails
       \/ FindSlots
    /\ UNCHANGED dvars

SpecResolver == InitResolver /\ [][NextResolver]_vars

(***************************************************************************)
(*                   Properties of find_available_slots                    *)
(***************************************************************************)

\* find_available_slots has returned from its try block, not from an except.
Resolved == rpc = "returned" /\ output.error = None

\* The returned slots as (start, end) instants.
ReturnedSlots ==
    [i \in 1..Len(output.slots) |->
        <<fromisoformat(output.slots[i].start_time), fromisoformat(output.slots[i].end_time)>>]

\* The busy intervals, as sets of (start, end) instants, that the answer
\* holds for calendars without errors, and for calendars with errors.
BusyOf(withErrors) ==
    UNION {{<<fromisoformat(freebusy_result[c].busy[i].start),
              fromisoformat(freebusy_result[c].busy[i].end)>> :
                i \in 1..Len(freebusy_result[c].busy)} :
           c \in {c \in 1..Len(freebusy_result) : freebusy_result[c].errors = withErrors}}

\* How many busy intervals the first n calendars of the answer hold, counting
\* the calendars with errors or those without.
RECURSIVE CountBusy(_, _)
CountBusy(n, withErrors) ==
    IF n = 0 THEN 0
    ELSE CountBusy(n - 1, withErrors)
         + (IF freebusy_result[n].errors = withErrors THEN Len(freebusy_result[n].busy) ELSE 0)

WindowStart == start_time_dt(args)
WindowEnd == end_time_dt(args)
MinDuration == timedelta_minutes(args.duration_minutes)

\* The maximal gaps of [WindowStart, WindowEnd) minus the union of the
\* half-open intervals of busy: [a, b) inside the window, meeting no busy
\* interval, and bordered on each side by the window's bound or busy time.
MaximalGaps(busy) ==
    LET clipped == {t \in ({WindowStart, WindowEnd} \cup {x[1] : x \in busy} \cup {x[2] : x \in busy}) :
                        WindowStart <= t /\ t <= WindowEnd}
    IN  {g \in clipped \X clipped :
            /\ g[1] < g[2]
            /\ \A x \in busy : x[2] <= g[1] \/ g[2] <= x[1]
            /\ g[1] = WindowStart \/ \E x \in busy : x[1] < g[1] /\ g[1] <= x[2]
            /\ g[2] = WindowEnd \/ \E x \in busy : x[1] <= g[2] /\ g[2] < x[2]}

QualifyingGaps(busy) == {g \in MaximalGaps(busy) : g[2] - g[1] >= MinDuration}

Range(f) == {f[i] : i \in DOMAIN f}

\* C7: the returned slots are in strictly ascending start order, pairwise
\* disjoint, each at least duration_minutes long, and each disjoint from
\* every busy interval the answer holds for a calendar without errors.
C7_SlotsOrderedDisjointFree ==
    Resolved =>
        /\ \A i \in 1..Len(ReturnedSlots) :
            /\ ReturnedSlots[i][2] - ReturnedSlots[i][1] >= MinDuration
            /\ ReturnedSlots[i][1] < ReturnedSlots[i][2]
            /\ \A x \in BusyOf(FALSE) :
                    x[2] <= ReturnedSlots[i][1] \/ ReturnedSlots[i][2] <= x[1]
        /\ \A i, j \in 1..Len(ReturnedSlots) :
            i < j => /\ ReturnedSlots[i][1] < ReturnedSlots[j][1]
                     /\ ReturnedSlots[i][2] <= ReturnedSlots[j][1]

\* Two attendees whose busy intervals come out of order, and two slots
\* returned around them.
C7_Witness ==
    /\ Resolved
    /\ Len(freebusy_result) = 2
    /\ Len(ReturnedSlots) = 2
    /\ Len(Flatten(freebusy_result)) = 2
    /\ Flatten(freebusy_result)[2][1] < Flatten(freebusy_result)[1][1]

\* C8: the returned slots are exactly the maximal gaps of the window minus
\* the busy time that are at least duration_minutes long, each once and with
\* its exact bounds (so every slot lies inside the window).
C8_SlotsAreTheQualifyingGaps ==
    Resolved =>
        /\ Range(ReturnedSlots) = QualifyingGaps(BusyOf(FALSE))
        /\ Len(ReturnedSlots) = Cardinality(QualifyingGaps(BusyOf(FALSE)))

\* C9: when no gap of the window qualifies the slot list is empty, status is
\* set and error is not; when one does the slot list is not empty and
\* neither status nor error is set.
C9_StatusWhenNoGapQualifies ==
    Resolved =>
        IF QualifyingGaps(BusyOf(FALSE)) = {}
        THEN output.slots = <<>> /\ output.status # None /\ output.error = None
        ELSE output.slots # <<>> /\ output.status = None /\ output.error = None

\* C10: when the query answered and some calendar carries errors,
\* find_available_slots returns without error, the intervals it collected
\* are those of the calendars without errors and no others, and its output
\* is the one it gives for the answer without the calendars with errors.
C10_ErrorCalendarsLeftOut ==
    (rpc = "returned" /\ \E c \in 1..Len(freebusy_result) : freebusy_result[c].errors) =>
        /\ output.error = None
        /\ Range(all_busy_intervals) = BusyOf(FALSE)
        /\ Len(all_busy_intervals) = CountBusy(Len(freebusy_result), FALSE)
        /\ output = SlotsOutput(AvailableSlots(MergeBusy(SortByStart(Flatten(
                        SelectSeq(freebusy_result, LAMBDA c : ~c.errors)))), args))

\* One calendar with errors and a busy interval, another without errors and
\* busy at another time; a returned slot overlaps the first one's interval.
C10_Witness ==
    /\ Resolved
    /\ BusyOf(TRUE) # {} /\ BusyOf(FALSE) # {}
    /\ \E x \in BusyOf(TRUE) : \E i \in 1..Len(ReturnedSlots) :
            x[1] < ReturnedSlots[i][2] /\ ReturnedSlots[i][1] < x[2]
====
